---- MODULE Spec2Model ----
(***************************************************************************)
(* Project Nyaya: the context-fusion retrieval pipeline.                   *)
(*   web_fetcher.py : _cache, _extract_text, _fetch_one,                   *)
(*                    fetch_government_context                             *)
(*   main.py        : LEGAL_CHUNKS, semantic_retrieve, _call_groq_analyze  *)
(*                                                                         *)
(* Strings are modelled as ropes: a sequence of pieces [s, n], where s     *)
(* names the piece's characters and n is its length in characters.  A      *)
(* piece with a smaller n than the original denotes its prefix of length   *)
(* n.  The em dash of the source's labels is written "-" (one character    *)
(* in both).                                                               *)
(***************************************************************************)
EXTENDS Integers, Sequences, FiniteSets, TLC

VARIABLES now, cache, req, started, net, static, demo

vars == <<now, cache, req, started, net, static, demo>>

(***************************************************************************)
(* Program constants                                                       *)
(***************************************************************************)
CACHE_TTL == 3600
MIN_CONTENT_LEN == 100
MAX_PARAGRAPHS == 50
MAX_CHARS_PER_SOURCE == 3500
MIN_FRAGMENT_LEN == 40
WEB_MIN_LEN == 300
TOP_K == 3

(***************************************************************************)
(* Bounds of the model                                                     *)
(***************************************************************************)
MaxTime == 3600
MaxCalls == 2
MaxRequests == 2
MaxOverlap == 3
MaxLiveCalls == 2
MaxFetchCalls == 3

\* the readings of the clock that matter to an entry written at 0: the last
\* second of its window and the first second after it
Instants == {CACHE_TTL - 1, CACHE_TTL}

(***************************************************************************)
(* Ropes                                                                   *)
(***************************************************************************)
Lit(s, n) == <<[s |-> s, n |-> n]>>

RECURSIVE RLen(_)
RLen(r) == IF r = <<>> THEN 0 ELSE Head(r).n + RLen(Tail(r))

\* Python's text[:k]
RECURSIVE Take(_, _)
Take(r, k) ==
    IF r = <<>> \/ k <= 0 THEN <<>>
    ELSE IF Head(r).n <= k THEN <<Head(r)>> \o Take(Tail(r), k - Head(r).n)
    ELSE <<[s |-> Head(r).s, n |-> k]>>

\* Python's sep.join(parts)
RECURSIVE Join(_, _)
Join(sep, parts) ==
    IF parts = <<>> THEN <<>>
    ELSE IF Len(parts) = 1 THEN Head(parts)
    ELSE Head(parts) \o sep \o Join(sep, Tail(parts))

(***************************************************************************)
(* Web Source Registry (web_fetcher.py GOVERNMENT_SOURCES)                  *)
(***************************************************************************)
Src(u, l) == [url |-> u, label |-> l]

GOVERNMENT_SOURCES ==
    "RTI" :> <<
        Src("https://rtionline.gov.in/",
            "RTI Online Portal - Official Portal (NIC / DoPT)"),
        Src("https://cic.gov.in/",
            "Central Information Commission (CIC) - Official Portal"),
        Src("https://doj.gov.in/right-to-information",
            "Department of Justice - Right to Information"),
        Src("https://www.indiacode.nic.in/handle/123456789/1879",
            "India Code - Right to Information Act 2005 (Official Legislation Repository)")>> @@
    "Domestic Violence" :> <<
        Src("https://www.indiacode.nic.in/handle/123456789/15436",
            "India Code - Protection of Women from Domestic Violence Act 2005"),
        Src("https://nalsa.gov.in/",
            "National Legal Services Authority (NALSA) - Free Legal Aid"),
        Src("https://cic.gov.in/",
            "Central Information Commission - Legal Resources")>> @@
    "Divorce" :> <<
        Src("https://www.indiacode.nic.in/handle/123456789/2055",
            "India Code - Hindu Marriage Act 1955 (Official Legislation Repository)"),
        Src("https://nalsa.gov.in/",
            "National Legal Services Authority (NALSA) - Free Legal Aid for Family Disputes"),
        Src("https://doj.gov.in/right-to-information",
            "Department of Justice - Legal Resources")>>

\* len(label)
LabelLen(l) ==
    CASE l = "RTI Online Portal - Official Portal (NIC / DoPT)" -> 48
      [] l = "Central Information Commission (CIC) - Official Portal" -> 54
      [] l = "Department of Justice - Right to Information" -> 44
      [] l = "India Code - Right to Information Act 2005 (Official Legislation Repository)" -> 76
      [] l = "India Code - Protection of Women from Domestic Violence Act 2005" -> 64
      [] l = "National Legal Services Authority (NALSA) - Free Legal Aid" -> 58
      [] l = "Central Information Commission - Legal Resources" -> 48
      [] l = "India Code - Hindu Marriage Act 1955 (Official Legislation Repository)" -> 70
      [] l = "National Legal Services Authority (NALSA) - Free Legal Aid for Family Disputes" -> 78
      [] l = "Department of Justice - Legal Resources" -> 39

(***************************************************************************)
(* Corpus Store (main.py LEGAL_CHUNKS): id, topic, section and len(text)    *)
(***************************************************************************)
Chunk(i, t, s, n) == [id |-> i, topic |-> t, section |-> s, tn |-> n]

LEGAL_CHUNKS == <<
    Chunk("rti_scope_definition", "RTI",
        "Scope and Definitions", 851),
    Chunk("rti_filing_procedure", "RTI",
        "Filing Procedure", 785),
    Chunk("rti_timelines_deadlines", "RTI",
        "Timelines and Deadlines", 809),
    Chunk("rti_fees_charges", "RTI",
        "Fees and Charges", 635),
    Chunk("rti_appeals_process", "RTI",
        "Appeals - First and Second", 947),
    Chunk("rti_exemptions", "RTI",
        "Exemptions from Disclosure", 972),
    Chunk("dv_definition_types", "Domestic Violence",
        "Definition and Types of Abuse", 956),
    Chunk("dv_who_can_file_officials", "Domestic Violence",
        "Who Can File and Key Officials", 898),
    Chunk("dv_dir_filing", "Domestic Violence",
        "Domestic Incident Report Filing", 894),
    Chunk("dv_court_orders", "Domestic Violence",
        "Court Orders Available", 1010),
    Chunk("dv_criminal_remedies", "Domestic Violence",
        "Criminal Law Remedies", 980),
    Chunk("divorce_eligibility_types", "Divorce",
        "Eligibility and Types of Divorce", 927),
    Chunk("divorce_procedure_steps", "Divorce",
        "Step-by-Step Mutual Consent Procedure", 1248),
    Chunk("divorce_alimony_maintenance", "Divorce",
        "Alimony and Maintenance", 1069),
    Chunk("divorce_child_custody", "Divorce",
        "Child Custody", 1056),
    Chunk("divorce_nri_special", "Divorce",
        "NRI Divorce and Other Special Situations", 970)>>

\* len(section)
SectionLen(s) ==
    CASE s = "Scope and Definitions" -> 21
      [] s = "Filing Procedure" -> 16
      [] s = "Timelines and Deadlines" -> 23
      [] s = "Fees and Charges" -> 16
      [] s = "Appeals - First and Second" -> 26
      [] s = "Exemptions from Disclosure" -> 26
      [] s = "Definition and Types of Abuse" -> 29
      [] s = "Who Can File and Key Officials" -> 30
      [] s = "Domestic Incident Report Filing" -> 31
      [] s = "Court Orders Available" -> 22
      [] s = "Criminal Law Remedies" -> 21
      [] s = "Eligibility and Types of Divorce" -> 32
      [] s = "Step-by-Step Mutual Consent Procedure" -> 37
      [] s = "Alimony and Maintenance" -> 23
      [] s = "Child Custody" -> 13
      [] s = "NRI Divorce and Other Special Situations" -> 40

\* len(topic)
TopicLen(t) ==
    CASE t = "RTI" -> 3
      [] t = "Domestic Violence" -> 17
      [] t = "Divorce" -> 7

(***************************************************************************)
(* Semantic Index (main.py _collection.query, semantic_retrieve)           *)
(***************************************************************************)
ChunkById(i) == CHOOSE c \in {LEGAL_CHUNKS[k] : k \in DOMAIN LEGAL_CHUNKS} : c.id = i

\* What the collection answers is an input of the model, as the pages of
\* the portals are: the embedding and the search are chromadb's, outside the
\* repository.  Each query text of the model stands for one nearest-first
\* order of chunk ids, the same for every call (the collection is filled
\* once, by line 398, and never changed).  Nothing below is concluded from
\* two answers of the collection agreeing with one another.
Nearest(q) ==
    CASE q = "how do I file an RTI" ->
            <<"rti_filing_procedure", "rti_fees_charges",
              "rti_scope_definition", "rti_timelines_deadlines">>
      [] q = "my husband beats me" ->
            <<"dv_definition_types", "dv_criminal_remedies",
              "divorce_eligibility_types", "dv_court_orders">>
      [] q = "mutual consent divorce and alimony" ->
            <<"divorce_procedure_steps", "divorce_alimony_maintenance",
              "dv_court_orders", "divorce_eligibility_types">>

Queries ==
    {"how do I file an RTI", "my husband beats me",
     "mutual consent divorce and alimony"}

\* _collection.query(query_texts=[q], n_results=k)
Query(q, k) == SubSeq(Nearest(q), 1, k)

\* f"[{meta['topic']} - {meta['section']}]\n{doc}"
ContextPart(c) ==
    Lit("[", 1) \o Lit(c.topic, TopicLen(c.topic)) \o Lit(" - ", 3)
        \o Lit(c.section, SectionLen(c.section)) \o Lit("]\n", 2)
        \o Lit(c.id, c.tn)

\* semantic_retrieve(query, n_results)
semantic_retrieve(q, k) ==
    Join(Lit("\n\n", 2), [i \in 1..Len(Query(q, k)) |-> ContextPart(ChunkById(Query(q, k)[i]))])

\* semantic_retrieve(text) with the default n_results=4
RagContextDefault(q) == semantic_retrieve(q, 4)

\* line 855: semantic_retrieve(text, n_results=3)
RagContext(q) == semantic_retrieve(q, TOP_K)

\* top chunk's topic, "RTI" when the index returns nothing
dominant_intent(q) ==
    IF Query(q, 1) # <<>> THEN ChunkById(Query(q, 1)[1]).topic ELSE "RTI"

(***************************************************************************)
(* Pages: what a GET can deliver.  A page is the list of the p/li/h*/td/dd *)
(* elements of its main container, each with the length of its text and    *)
(* whether the text starts with "Skip to".                                 *)
(***************************************************************************)
Frag(s, n, skip) == [s |-> s, n |-> n, skip |-> skip]

PageFrags(p) ==
    CASE p = "empty" -> <<>>
      [] p = "short" -> <<Frag("short/skip", 60, TRUE), Frag("short/crumb", 40, FALSE),
                          Frag("short/p1", 41, FALSE), Frag("short/p2", 57, FALSE)>>
      [] p = "min"   -> <<Frag("min/p1", 41, FALSE), Frag("min/p2", 58, FALSE)>>
      [] p = "p240"  -> <<Frag("p240/p1", 120, FALSE), Frag("p240/p2", 119, FALSE)>>
      [] p = "p241"  -> <<Frag("p241/p1", 120, FALSE), Frag("p241/p2", 120, FALSE)>>
      [] p = "big"   -> <<Frag("big/p1", 2000, FALSE), Frag("big/p2", 1600, FALSE)>>

Pages == {"empty", "short", "min", "p240", "p241", "big"}

Failures == {"non200", "timeout", "neterr", "error"}

Responses == Failures \cup Pages

\* the filter of _extract_text's loop
KeepFragment(f) == f.n > MIN_FRAGMENT_LEN /\ ~f.skip

\* the loop of _extract_text: texts after visiting frags, starting from acc
RECURSIVE ExtractLoop(_, _)
ExtractLoop(frags, acc) ==
    IF frags = <<>> THEN acc
    ELSE LET f == Head(frags)
             acc2 == IF KeepFragment(f) THEN Append(acc, Lit(f.s, f.n)) ELSE acc
         IN IF Len(acc2) >= MAX_PARAGRAPHS THEN acc2
            ELSE ExtractLoop(Tail(frags), acc2)

_extract_text(p) == Join(Lit("\n", 1), ExtractLoop(PageFrags(p), <<>>))

(***************************************************************************)
(* Page Fetcher (web_fetcher.py _fetch_one)                                *)
(***************************************************************************)
None == [t |-> "none", v |-> <<>>]
Str(v) == [t |-> "str", v |-> v]
Raised == [t |-> "exc", v |-> <<>>]

\* f"[Source: {label}]\n{text}"
Formatted(label, text) ==
    Lit("[Source: ", 9) \o Lit(label, LabelLen(label)) \o Lit("]\n", 2) \o text

\* an expiry test that still serves an entry aged exactly CACHE_TTL
FreshInclusive(ts, t) == t - ts <= CACHE_TTL

\* time.time() - ts < CACHE_TTL
Fresh(ts, t) == t - ts < CACHE_TTL

\* a cache-hit test without the expiry test
CacheHitAnyAge(c, t, url) == url \in DOMAIN c

\* the cache-hit test of lines 151-153
CacheHit(c, t, url) == url \in DOMAIN c /\ Fresh(c[url].ts, t)

\* a length test that lets a text one character below the minimum through
TooShortLax(text) == RLen(text) < MIN_CONTENT_LEN - 1

\* len(text) < MIN_CONTENT_LEN
TooShort(text) == RLen(text) < MIN_CONTENT_LEN

\* only the first except clause (httpx.TimeoutException, httpx.NetworkError)
CaughtNetworkOnly(resp) == resp \in {"timeout", "neterr"}

\* the failures the two except clauses turn into None
Caught(resp) == resp \in {"timeout", "neterr", "error"}

\* a fetcher that keeps the whole extracted text
TruncateNone(text) == text

\* text[:MAX_CHARS_PER_SOURCE]
Truncate(text) == Take(text, MAX_CHARS_PER_SOURCE)

\* a write that replaces the text and keeps the timestamp of an entry
\* that is already there
CachePutTextOnly(c, url, text, t) ==
    [u \in DOMAIN c \cup {url} |->
        IF u = url
        THEN [text |-> text, ts |-> IF url \in DOMAIN c THEN c[url].ts ELSE t]
        ELSE c[u]]

\* _cache[url] = (text, time.time())
CachePut(c, url, text, t) ==
    [u \in DOMAIN c \cup {url} |-> IF u = url THEN [text |-> text, ts |-> t] ELSE c[u]]

\* lines 160-179: what _fetch_one returns once the GET has resolved with resp
FetchResult(src, resp) ==
    IF resp \in Failures
    THEN IF resp = "non200" \/ Caught(resp) THEN None ELSE Raised
    ELSE IF TooShort(_extract_text(resp)) THEN None
         ELSE Str(Formatted(src.label, Truncate(_extract_text(resp))))

\* a fetcher that drops the entry of its URL when the refetch fails
FetchCacheEvict(c, src, resp, t) ==
    IF resp \in Pages /\ ~TooShort(_extract_text(resp))
    THEN CachePut(c, src.url, Truncate(_extract_text(resp)), t)
    ELSE [u \in DOMAIN c \ {src.url} |-> c[u]]

\* a fetcher that caches the text as it returns it, label line included
FetchCacheLabelled(c, src, resp, t) ==
    IF resp \in Pages /\ ~TooShort(_extract_text(resp))
    THEN CachePut(c, src.url, Formatted(src.label, Truncate(_extract_text(resp))), t)
    ELSE c

\* lines 169-170: the cache after the GET has resolved with resp at time t
FetchCache(c, src, resp, t) ==
    IF resp \in Pages /\ ~TooShort(_extract_text(resp))
    THEN CachePut(c, src.url, Truncate(_extract_text(resp)), t)
    ELSE c

(***************************************************************************)
(* Context Fusion Engine (web_fetcher.py fetch_government_context)         *)
(***************************************************************************)
\* a lookup that falls back to the RTI sources for an unknown intent
SourcesForDefault(intent) ==
    IF intent \in DOMAIN GOVERNMENT_SOURCES THEN GOVERNMENT_SOURCES[intent]
    ELSE GOVERNMENT_SOURCES["RTI"]

\* GOVERNMENT_SOURCES.get(intent, [])
SourcesFor(intent) ==
    IF intent \in DOMAIN GOVERNMENT_SOURCES THEN GOVERNMENT_SOURCES[intent] ELSE <<>>

\* every configured source, without the cap
SelectedAll(intent) == SourcesFor(intent)

\* sources[:3]
Selected(intent) ==
    SubSeq(SourcesFor(intent), 1,
           IF Len(SourcesFor(intent)) < 3 THEN Len(SourcesFor(intent)) ELSE 3)

\* an acceptance test that drops texts below the policy's threshold
AcceptedLong(result) == result.t = "str" /\ RLen(result.v) >= WEB_MIN_LEN

\* isinstance(result, str) and result
Accepted(result) == result.t = "str" /\ result.v # <<>>

\* a loop that stops only at three accepted results
EnoughAcceptedThree(combined) == Len(combined) >= 3

\* len(combined) >= 2
EnoughAccepted(combined) == Len(combined) >= 2

\* a loop whose sources_used.append stands outside the if
RECURSIVE AcceptLoopAllLabels(_, _, _, _)
AcceptLoopAllLabels(srcs, results, combined, used) ==
    IF srcs = <<>> \/ results = <<>> THEN [combined |-> combined, used |-> used]
    ELSE LET ok == Accepted(Head(results))
             c2 == IF ok THEN Append(combined, Head(results).v) ELSE combined
             u2 == Append(used, Head(srcs).label)
         IN IF EnoughAccepted(c2) THEN [combined |-> c2, used |-> u2]
            ELSE AcceptLoopAllLabels(Tail(srcs), Tail(results), c2, u2)

\* the for loop of lines 210-215 over zip(sources[:3], results)
RECURSIVE AcceptLoop(_, _, _, _)
AcceptLoop(srcs, results, combined, used) ==
    IF srcs = <<>> \/ results = <<>> THEN [combined |-> combined, used |-> used]
    ELSE LET ok == Accepted(Head(results))
             c2 == IF ok THEN Append(combined, Head(results).v) ELSE combined
             u2 == IF ok THEN Append(used, Head(srcs).label) ELSE used
         IN IF EnoughAccepted(c2) THEN [combined |-> c2, used |-> u2]
            ELSE AcceptLoop(Tail(srcs), Tail(results), c2, u2)

Separator == Lit("\n\n---\n\n", 7)

\* lines 210-217: the value returned for the gathered results
Assemble(srcs, results) ==
    LET a == AcceptLoop(srcs, results, <<>>, <<>>)
    IN [text |-> Join(Separator, a.combined), used |-> a.used]

\* a wait that ends as soon as two tasks have ended with a text
GatherDoneEarly(tasks) ==
    \/ \A i \in DOMAIN tasks : tasks[i].pc = "done"
    \/ \E i, j \in DOMAIN tasks :
          /\ i # j
          /\ tasks[i].pc = "done" /\ tasks[i].res.t = "str"
          /\ tasks[j].pc = "done" /\ tasks[j].res.t = "str"

\* await asyncio.gather(*tasks, return_exceptions=True) is over
GatherDone(tasks) == \A i \in DOMAIN tasks : tasks[i].pc = "done"

\* the results as asyncio.as_completed would yield them
CompletionResults(tasks, order) == [k \in DOMAIN order |-> tasks[order[k]].res]

\* results of gather: in the order of the tasks handed to it, whatever the
\* order in which they completed
GatherResults(tasks, order) == [i \in DOMAIN tasks |-> tasks[i].res]

\* gather(..., return_exceptions=True) hands exceptions back as results
ReturnExceptions == TRUE

GatherRaises(results) ==
    ~ReturnExceptions /\ \E i \in DOMAIN results : results[i].t = "exc"

(***************************************************************************)
(* Fusion/fallback policy (main.py _call_groq_analyze)                     *)
(***************************************************************************)
LiveBanner == Lit("=== LIVE DATA FROM OFFICIAL GOVERNMENT PORTALS ===\n", 51)
AdditionalBanner == Lit("\n\n=== ADDITIONAL CONTEXT FROM LEGAL KNOWLEDGE BASE ===\n", 55)
KnowledgeBanner == Lit("=== CONTEXT FROM LEGAL KNOWLEDGE BASE ===\n", 42)

\* a cutoff that needs more than 300 characters
WebUsableStrict(web) == web # <<>> /\ RLen(web) > WEB_MIN_LEN

\* web_context and len(web_context) >= 300
WebUsable(web) == web # <<>> /\ RLen(web) >= WEB_MIN_LEN

\* a fusion that hands the web context alone to the reasoning step
FuseWebOnly(web, used, rag) ==
    IF WebUsable(web)
    THEN [context_source |-> "WEB+RAG", sources_used |-> used,
          fused_context |-> LiveBanner \o web]
    ELSE [context_source |-> "RAG", sources_used |-> <<>>,
          fused_context |-> KnowledgeBanner \o rag]

\* a policy whose fallback branch forgets to reset sources_used
FuseKeepsSources(web, used, rag) ==
    IF WebUsable(web)
    THEN [context_source |-> "WEB+RAG", sources_used |-> used,
          fused_context |-> LiveBanner \o web \o AdditionalBanner \o rag]
    ELSE [context_source |-> "RAG", sources_used |-> used,
          fused_context |-> KnowledgeBanner \o rag]

\* lines 871-885
Fuse(web, used, rag) ==
    IF WebUsable(web)
    THEN [context_source |-> "WEB+RAG", sources_used |-> used,
          fused_context |-> LiveBanner \o web \o AdditionalBanner \o rag]
    ELSE [context_source |-> "RAG", sources_used |-> <<>>,
          fused_context |-> KnowledgeBanner \o rag]

(***************************************************************************)
(* State                                                                   *)
(*   now    the clock read by time.time(), in seconds                      *)
(*   cache  _cache: url -> [text, ts]                                      *)
(*   req    the requests being served by the event loop, each the frame    *)
(*          of one _call_groq_analyze call: its query text q (rag_context  *)
(*          is a function of q alone, the collection being built once, at  *)
(*          import, by line 398, before any request is served),            *)
(*          dominant_intent, the three _fetch_one tasks, the               *)
(*          order in which they completed, and the fused result.  A task   *)
(*          is "new" from the moment gather has scheduled it to its first  *)
(*          step, "get" while its GET is awaited, "done" afterwards.  The  *)
(*          event loop runs one callback at a time: the first steps of the *)
(*          three tasks of a call follow one another in its queue, and a   *)
(*          client with no connection to close is left without a          *)
(*          suspension (phase "returning", against "closing"); only the    *)
(*          clock moves inside such a run.  A frame                        *)
(*          with an empty q is a call of fetch_government_context on its   *)
(*          own (test_web_fetch.py), outside _call_groq_analyze            *)
(*   started  the number of requests started so far                        *)
(*   net    what the portals can answer during this run                    *)
(*   static the files of STATIC_DIR                                        *)
(*   demo   DEMO_MODE, read from the environment at import (main.py:37)    *)
(***************************************************************************)
NoOut == [web |-> <<>>, context_source |-> "", sources_used |-> <<>>, fused_context |-> <<>>]

Idle == [phase |-> "idle", q |-> "", topic |-> "", task |-> <<>>, order |-> <<>>,
         out |-> NoOut]

\* a task gather has scheduled (line 208), before its first step
Scheduled == [pc |-> "new", via |-> "", resp |-> "", res |-> None]

Pending == [pc |-> "get", via |-> "", resp |-> "", res |-> None]

\* lines 150-155 for one source: the first step of its task
FirstStep(c, t, src) ==
    IF CacheHit(c, t, src.url)
    THEN [pc |-> "done", via |-> "cache", resp |-> "",
          res |-> Str(Formatted(src.label, c[src.url].text))]
    ELSE Pending

\* the first steps of the tasks of a call follow one another in the queue
\* of the event loop: some have run, some have not
MidStart(tasks) ==
    /\ \E i \in DOMAIN tasks : tasks[i].pc = "new"
    /\ \E i \in DOMAIN tasks : tasks[i].pc # "new"

\* the client of a call may hold a connection when one of its GETs went to
\* the network.  Whether one is left in the pool when the client is closed
\* is decided by the library and the server, not by the outcome of the GET:
\* a response with "Connection: close" or an idle connection that has
\* expired leaves none, a GET that failed after a redirect leaves one
MayHaveConnections(tasks) ==
    \E i \in DOMAIN tasks : tasks[i].via = "net"

\* whether the exit of the async with block suspends: it does once for every
\* connection of the pool, and not at all when the pool is empty
Suspends(tasks) == IF MayHaveConnections(tasks) THEN BOOLEAN ELSE {FALSE}

Requests == {"r1", "r2"}

URLs ==
    UNION {{GOVERNMENT_SOURCES[t][i].url : i \in DOMAIN GOVERNMENT_SOURCES[t]} :
           t \in DOMAIN GOVERNMENT_SOURCES}

\* what the portals can answer during one run: the portals that are up
\* answer a GET with a failure of fails or a page of pages, the others
\* with a failure of fails
World(up, pages, fails) == [up |-> up, pages |-> pages, fails |-> fails]

\* the portals of a world that keep a GET open for ever: they send their
\* answer piece by piece, each piece within the FETCH_TIMEOUT seconds that
\* httpx.Timeout(FETCH_TIMEOUT) (line 203) allows for one connect, read or
\* write, so that no wait of the GET times out and client.get (line 159)
\* does not end.  The timeout bounds each wait, not the GET as a whole
Stalling(w) == IF "stalling" \in DOMAIN w THEN w.stalling ELSE {}

\* how the GET of url can end in world w
Offered(w, url) ==
    IF url \in Stalling(w) THEN {}
    ELSE w.fails \cup (IF url \in w.up THEN w.pages ELSE {})

InitIn(worlds) ==
    /\ now = 0
    /\ cache = <<>>
    /\ req = [r \in Requests |-> Idle]
    /\ started = 0
    /\ net \in worlds
    /\ static = {}
    /\ demo = FALSE

\* time passes: time.time() reads t from now on
Tick(t) ==
    /\ now < t
    /\ t <= MaxTime
    /\ now' = t
    /\ UNCHANGED <<cache, req, started, net, static, demo>>

\* request r is inside a run of the event loop that no other callback can
\* enter: between the first steps of its tasks, or between its acceptance
\* loop and its return when its client has nothing to close
Running(r) ==
    \/ MidStart(req[r].task)
    \/ req[r].phase = "returning"

\* the event loop can give request r its turn
Free(r) == \A o \in Requests \ {r} : ~Running(o)

\* _call_groq_analyze up to its first suspension: lines 855-868 and, inside
\* fetch_government_context, lines 195-208, where gather schedules the tasks
StartRequest(r, q, max) ==
    /\ req[r].phase = "idle"
    /\ Free(r)
    /\ started < max
    /\ started' = started + 1
    /\ LET intent == dominant_intent(q)
           rag == RagContext(q)
           srcs == Selected(intent)
           tasks == [i \in DOMAIN srcs |-> Scheduled]
       IN req' = [req EXCEPT ![r] =
              IF SourcesFor(intent) = <<>>
              THEN [Idle EXCEPT !.phase = "llm", !.q = q, !.topic = intent,
                                !.out = [web |-> <<>>] @@ Fuse(<<>>, <<>>, rag)]
              ELSE [Idle EXCEPT !.phase = "gather", !.q = q, !.topic = intent,
                                !.task = tasks]]
    /\ UNCHANGED <<now, cache, net, static, demo>>

\* the first step of task i of a call: the cache check of lines 150-155,
\* then either the return of the cached text or the GET of line 159.  The
\* tasks start in the order gather scheduled them.
TaskStart(r, i) ==
    /\ req[r].phase = "gather"
    /\ Free(r)
    /\ i \in DOMAIN req[r].task
    /\ req[r].task[i].pc = "new"
    /\ \A j \in 1..(i - 1) : req[r].task[j].pc # "new"
    /\ LET step == FirstStep(cache, now, Selected(req[r].topic)[i])
       IN req' = [req EXCEPT ![r].task[i] = step,
                             ![r].order = IF step.pc = "done" THEN Append(@, i) ELSE @]
    /\ UNCHANGED <<now, cache, started, net, static, demo>>

\* a fetcher that goes back to the GET when the GET has failed
ReturnsUnlessFailed(resp) == resp \notin Failures

\* lines 160-179: every path out of the GET ends in a return, there is no
\* loop around client.get
Returns(resp) == TRUE

\* a task's GET resolves with resp: lines 160-179
GetResolve(r, i, resp) ==
    /\ req[r].phase = "gather"
    /\ Free(r) /\ ~MidStart(req[r].task)
    /\ i \in DOMAIN req[r].task
    /\ req[r].task[i].pc = "get"
    /\ LET src == Selected(req[r].topic)[i]
       IN /\ resp \in Offered(net, src.url)
          /\ req' = [req EXCEPT ![r].task[i] =
                        [pc |-> IF Returns(resp) THEN "done" ELSE "get",
                         via |-> "net", resp |-> resp,
                         res |-> FetchResult(src, resp)],
                                ![r].order = IF Returns(resp) THEN Append(@, i) ELSE @]
          /\ cache' = FetchCache(cache, src, resp, now)
    /\ UNCHANGED <<now, started, net, static, demo>>

\* what fetch_government_context hands back to its caller
Fetched(text, used) ==
    [web |-> text, context_source |-> "", sources_used |-> used, fused_context |-> <<>>]

\* gather is over: the acceptance loop of lines 210-215, up to the exit of
\* the async with block of line 202, where the client is closed.  The call
\* is "closing" while it is suspended there, and "returning" when the exit
\* has nothing to wait for and the return follows in the same run.
AcceptResults(r) ==
    /\ req[r].phase = "gather"
    /\ Free(r)
    /\ GatherDone(req[r].task)
    /\ \E suspends \in Suspends(req[r].task) :
         LET results == GatherResults(req[r].task, req[r].order)
             got == Assemble(Selected(req[r].topic), results)
         IN req' = [req EXCEPT ![r].phase = IF GatherRaises(results) THEN "raised"
                                            ELSE IF suspends THEN "closing" ELSE "returning",
                               ![r].out = IF GatherRaises(results) THEN NoOut
                                          ELSE Fetched(got.text, got.used)]
    /\ UNCHANGED <<now, cache, started, net, static, demo>>

\* the client is closed: the return of line 217, then lines 870-885 of
\* _call_groq_analyze
Return(r) ==
    /\ req[r].phase \in {"closing", "returning"}
    /\ req[r].q # ""
    /\ Free(r)
    /\ req' = [req EXCEPT ![r].phase = "llm",
                          ![r].out = [web |-> @.web]
                                     @@ Fuse(@.web, @.sources_used, RagContext(req[r].q))]
    /\ UNCHANGED <<now, cache, started, net, static, demo>>

\* the intents a caller of fetch_government_context may pass: the configured
\* topics and one that has no entry in GOVERNMENT_SOURCES
Intents == DOMAIN GOVERNMENT_SOURCES \cup {"Property Dispute"}

\* fetch_government_context(intent) called on its own, up to its first
\* suspension: lines 195-208, where gather schedules the tasks
CallFetch(r, intent, max) ==
    /\ req[r].phase = "idle"
    /\ Free(r)
    /\ started < max
    /\ started' = started + 1
    /\ LET srcs == Selected(intent)
           tasks == [i \in DOMAIN srcs |-> Scheduled]
       IN req' = [req EXCEPT ![r] =
              IF SourcesFor(intent) = <<>>
              THEN [Idle EXCEPT !.phase = "fetched", !.topic = intent,
                                !.out = Fetched(<<>>, <<>>)]
              ELSE [Idle EXCEPT !.phase = "gather", !.topic = intent,
                                !.task = tasks]]
    /\ UNCHANGED <<now, cache, net, static, demo>>

\* the client is closed in a call of fetch_government_context on its own:
\* the return of line 217
FetchReturn(r) ==
    /\ req[r].phase \in {"closing", "returning"}
    /\ req[r].q = ""
    /\ Free(r)
    /\ req' = [req EXCEPT ![r].phase = "fetched"]
    /\ UNCHANGED <<now, cache, started, net, static, demo>>

\* the caller has taken the result of its call
FetchDone(r) ==
    /\ req[r].phase \in {"fetched", "raised"}
    /\ Free(r)
    /\ req[r].q = ""
    /\ req' = [req EXCEPT ![r] = Idle]
    /\ UNCHANGED <<now, cache, started, net, static, demo>>

\* the reasoning step answers and the response leaves (lines 895-912), or
\* the exception reaches the route handler (lines 1051-1056)
Respond(r) ==
    /\ req[r].phase \in {"llm", "raised"}
    /\ Free(r)
    /\ req' = [req EXCEPT ![r] = Idle]
    /\ UNCHANGED <<now, cache, started, net, static, demo>>

(***************************************************************************)
(* Form drafts as PDF (main.py generate_form_pdf, form_pdf_builder.py).    *)
(* The handler has no await: it runs in one step.                          *)
(***************************************************************************)
\* the intents with a builder (lines 1258-1263)
FormIntents == {"RTI", "Domestic Violence", "Divorce"}

\* form_data: no field, fields the core font can print, a value the
\* builder cannot print (form_pdf_builder.py line 4)
FormData == {"none", "latin", "unprintable"}

\* the bodies of a request: with an intent or without the key
PdfRequests ==
    {[intent |-> t, form_data |-> f] : t \in Intents, f \in FormData}
        \cup {[form_data |-> f] : f \in FormData}

\* request.get("intent", "RTI") (line 1251)
RequestIntent(request) ==
    IF "intent" \in DOMAIN request THEN request.intent ELSE "RTI"

\* f"nyaya_form_{pdf_id}.pdf" with pdf_id = uuid.uuid4().hex, a fresh
\* value for every request (lines 1253-1254)
PdfFilename(id) == <<"nyaya_form_", id, ".pdf">>

\* build_rti_pdf, build_dv_pdf, build_divorce_pdf: the draft is written by
\* the last statement, pdf.output(str(pdf_path)), or the builder raises
\* before it
BuildRaises(form_data) == form_data = "unprintable"

NoExc == [type |-> "", status_code |-> 0, detail |-> <<>>]

\* HTTPException(status_code=400, detail=f"Unknown intent: {intent}")
\* (lines 1264-1265)
UnknownIntent(intent) ==
    [type |-> "HTTPException", status_code |-> 400,
     detail |-> <<"Unknown intent: ", intent>>]

BuilderError == [type |-> "Exception", status_code |-> 0, detail |-> <<"builder">>]

\* the body of the try statement (lines 1257-1265): what it raises, if
\* anything
TryRaises(intent, form_data) ==
    IF intent \in FormIntents
    THEN IF BuildRaises(form_data) THEN BuilderError ELSE NoExc
    ELSE UnknownIntent(intent)

\* str(exc) in the f-string of line 1267: Starlette's HTTPException prints
\* as "<status_code>: <detail>", any other exception as its message
ExcText(exc) ==
    IF exc.type = "HTTPException" THEN <<"400: ">> \o exc.detail ELSE exc.detail

\* except Exception as exc (line 1266): HTTPException is an Exception, so
\* the clause catches the one raised inside the try as well
PdfCaught(exc) == exc # NoExc

\* the answer of the handler: the response of lines 1269-1273, or the
\* HTTPException of line 1267, which FastAPI turns into its status and detail
PdfAnswer(intent, form_data, file) ==
    LET exc == TryRaises(intent, form_data)
    IN IF PdfCaught(exc)
       THEN [status |-> 500, detail |-> <<"PDF generation error: ">> \o ExcText(exc),
             pdf_filename |-> <<>>, intent |-> ""]
       ELSE [status |-> 200, detail |-> <<>>,
             pdf_filename |-> file, intent |-> intent]

\* the files the handler leaves in STATIC_DIR
PdfWritten(intent, form_data, file) ==
    IF TryRaises(intent, form_data) = NoExc THEN {file} ELSE {}

\* POST /api/generate_form_pdf (lines 1244-1273)
GenerateFormPdf(r, request, max) ==
    /\ req[r].phase = "idle"
    /\ Free(r)
    /\ started < max
    /\ started' = started + 1
    /\ LET intent == RequestIntent(request)
           file == PdfFilename(started + 1)
       IN /\ req' = [req EXCEPT ![r] =
                       [Idle EXCEPT !.phase = "answered", !.topic = intent,
                                    !.out = PdfAnswer(intent, request.form_data, file)]]
          /\ static' = static \cup PdfWritten(intent, request.form_data, file)
    /\ UNCHANGED <<now, cache, net, demo>>

\* f"nyaya_{pdf_id}.pdf" with pdf_id = uuid.uuid4().hex (lines 1066-1067,
\* 1087-1088, 1123-1124)
TriageFilename(id) == <<"nyaya_", id, ".pdf">>

\* uuid.uuid4().hex: a value no file of STATIC_DIR is named by
FreshId == Cardinality(static) + 1

\* _build_pdf(data, pdf_path) (lines 920-1014): the document is written by
\* the last statement, pdf.output(str(pdf_path)), or FPDF raises before it.
\* Whether the core font prints the header line of line 931 is the
\* library's doing
BuildPdf(file, printed) == IF printed THEN {file} ELSE {}

\* the answer of a route that builds a triage document: the response with
\* the name of the file, or the status FastAPI gives an exception that no
\* handler caught
TriageAnswer(file, printed) ==
    IF printed
    THEN [status |-> 200, detail |-> <<>>, pdf_filename |-> file, intent |-> ""]
    ELSE [status |-> 500, detail |-> <<"Internal Server Error">>,
          pdf_filename |-> <<>>, intent |-> ""]

\* POST /api/generate_pdf (lines 1064-1068): the handler has no await
GeneratePdf(r, max) ==
    /\ req[r].phase = "idle"
    /\ Free(r)
    /\ started < max
    /\ started' = started + 1
    /\ \E printed \in BOOLEAN :
         LET file == TriageFilename(FreshId)
         IN /\ req' = [req EXCEPT ![r] =
                         [Idle EXCEPT !.phase = "pdf", !.out = TriageAnswer(file, printed)]]
            /\ static' = static \cup BuildPdf(file, printed)
    /\ UNCHANGED <<now, cache, net, demo>>

\* the sizes of an upload, on both sides of the thresholds of line 1086
AudioSizes == {19999, 20000, 59999, 60000}

\* the canned answer chosen by the size of the upload (line 1086)
DemoIntent(size) ==
    IF size < 20000 THEN "RTI"
    ELSE IF size < 60000 THEN "Domestic Violence"
    ELSE "Divorce"

\* POST /api/process with DEMO_MODE set (lines 1084-1093), from the
\* resuming after audio.read() to the return
ProcessDemo(r, max) ==
    /\ demo
    /\ req[r].phase = "idle"
    /\ Free(r)
    /\ started < max
    /\ started' = started + 1
    /\ \E size \in AudioSizes, printed \in BOOLEAN :
         LET file == TriageFilename(FreshId)
             answer == TriageAnswer(file, printed)
         IN /\ req' = [req EXCEPT ![r] =
                         [Idle EXCEPT !.phase = "pdf",
                                      !.out = IF printed
                                              THEN [answer EXCEPT !.intent = DemoIntent(size)]
                                              ELSE answer]]
            /\ static' = static \cup BuildPdf(file, printed)
    /\ UNCHANGED <<now, cache, net, demo>>

\* POST /api/process without DEMO_MODE (lines 1084, 1096-1116): the
\* transcript is handed to _call_groq_analyze, which runs to its first
\* suspension
ProcessAnalyze(r, q, max) ==
    /\ ~demo
    /\ StartRequest(r, q, max)

\* POST /api/process, after _call_groq_analyze: the reasoning step answers
\* (lines 895-912) and step 3 builds the document (lines 1122-1130), or an
\* exception ends the request before a file is written (lines 1117-1120,
\* or one raised by _build_pdf)
ProcessRespond(r) ==
    /\ req[r].phase \in {"llm", "raised"}
    /\ Free(r)
    /\ \E printed \in (IF req[r].phase = "llm" THEN BOOLEAN ELSE {FALSE}) :
         static' = static \cup BuildPdf(TriageFilename(FreshId), printed)
    /\ req' = [req EXCEPT ![r] = Idle]
    /\ UNCHANGED <<now, cache, started, net, demo>>

\* the client has the answer
PdfDone(r) ==
    /\ req[r].phase \in {"answered", "pdf"}
    /\ req' = [req EXCEPT ![r] = Idle]
    /\ UNCHANGED <<now, cache, started, net, static, demo>>

(***************************************************************************)
(* Spec: one request at a time, every kind of answer from the portals      *)
(***************************************************************************)
EngineWorlds ==
    {World(URLs, {"min"}, {"timeout", "non200"}),
     World(URLs, {"p240"}, {"neterr", "error"}),
     World(URLs, {"p241", "short"}, {"timeout"}),
     World(URLs, {"big", "empty"}, {"non200"}),
     World({}, {}, Failures)}

Init == InitIn(EngineWorlds)

Next ==
    \/ \E q \in Queries : StartRequest("r1", q, MaxCalls)
    \/ \E i \in 1..3 : TaskStart("r1", i)
    \/ \E i \in 1..3, resp \in Responses : GetResolve("r1", i, resp)
    \/ AcceptResults("r1")
    \/ Return("r1")
    \/ Respond("r1")

Spec == Init /\ [][Next]_vars

(***************************************************************************)
(* SpecCache: two overlapping requests, the clock, one portal up           *)
(***************************************************************************)
CacheWorlds == {World({"https://cic.gov.in/"}, {"min", "p241"}, {"timeout"})}

CacheQueries == {"how do I file an RTI", "my husband beats me"}

InitCache == InitIn(CacheWorlds)

NextCache ==
    \/ \E t \in Instants : Tick(t)
    \/ \E r \in Requests, q \in CacheQueries : StartRequest(r, q, MaxRequests)
    \/ \E r \in Requests, i \in 1..3 : TaskStart(r, i)
    \/ \E r \in Requests, i \in 1..3, resp \in Responses : GetResolve(r, i, resp)
    \/ \E r \in Requests : AcceptResults(r)
    \/ \E r \in Requests : Return(r)
    \/ \E r \in Requests : Respond(r)

SpecCache == InitCache /\ [][NextCache]_vars

(***************************************************************************)
(* SpecOverlap: requests on one query that follow and overlap one another  *)
(* within one second, one portal up                                        *)
(***************************************************************************)
NextOverlap ==
    \/ \E r \in Requests : StartRequest(r, "how do I file an RTI", MaxOverlap)
    \/ \E r \in Requests, i \in 1..3 : TaskStart(r, i)
    \/ \E r \in Requests, i \in 1..3, resp \in Responses : GetResolve(r, i, resp)
    \/ \E r \in Requests : AcceptResults(r)
    \/ \E r \in Requests : Return(r)
    \/ \E r \in Requests : Respond(r)

SpecOverlap == InitCache /\ [][NextOverlap]_vars

(***************************************************************************)
(* SpecFetch: fetch_government_context called on its own, with any intent  *)
(***************************************************************************)
NextFetch ==
    \/ \E t \in Intents : CallFetch("r1", t, MaxFetchCalls)
    \/ \E i \in 1..3 : TaskStart("r1", i)
    \/ \E i \in 1..3, resp \in Responses : GetResolve("r1", i, resp)
    \/ AcceptResults("r1")
    \/ FetchReturn("r1")
    \/ FetchDone("r1")

SpecFetch == Init /\ [][NextFetch]_vars

(***************************************************************************)
(* SpecFetchLive: calls of fetch_government_context under the scheduling   *)
(* the code has: the event loop runs every callback that is ready (the     *)
(* first step of a task, the acceptance loop, the return), and a GET ends  *)
(* when the portal answers, when the connection fails or when one of its   *)
(* waits reaches FETCH_TIMEOUT (line 203).  A portal that keeps its answer *)
(* coming piece by piece gives the GET no end                              *)
(***************************************************************************)
LiveWorlds ==
    {World(URLs, {"min"}, {"timeout", "non200"}),
     World(URLs, {"p240"}, {"neterr", "error"}),
     World(URLs, {"min"}, {"timeout"}) @@ [stalling |-> {"https://cic.gov.in/"}]}

InitLive == InitIn(LiveWorlds)

NextLive ==
    \/ \E t \in Intents : CallFetch("r1", t, MaxLiveCalls)
    \/ \E i \in 1..3 : TaskStart("r1", i)
    \/ \E i \in 1..3, resp \in Responses : GetResolve("r1", i, resp)
    \/ AcceptResults("r1")
    \/ FetchReturn("r1")
    \/ FetchDone("r1")

\* every GET that can end does end, and the event loop runs the callbacks
\* of the call that are ready
FairFetch ==
    /\ \A i \in 1..3 : WF_vars(\E resp \in Responses : GetResolve("r1", i, resp))
    /\ WF_vars((\E i \in 1..3 : TaskStart("r1", i)) \/ AcceptResults("r1") \/ FetchReturn("r1"))

SpecFetchLive == InitLive /\ [][NextLive]_vars /\ FairFetch

(***************************************************************************)
(* SpecRefetch: one request at a time and the clock, one portal up, every  *)
(* kind of failure                                                         *)
(***************************************************************************)
RefetchWorlds ==
    {World({"https://cic.gov.in/"}, {"min", "short"}, {"non200", "timeout"}),
     World({"https://cic.gov.in/"}, {"p241"}, {"neterr", "error"})}

InitRefetch == InitIn(RefetchWorlds)

NextRefetch ==
    \/ \E t \in Instants : Tick(t)
    \/ \E q \in CacheQueries : StartRequest("r1", q, MaxCalls)
    \/ \E i \in 1..3 : TaskStart("r1", i)
    \/ \E i \in 1..3, resp \in Responses : GetResolve("r1", i, resp)
    \/ AcceptResults("r1")
    \/ Return("r1")
    \/ Respond("r1")

SpecRefetch == InitRefetch /\ [][NextRefetch]_vars

(***************************************************************************)
(* SpecPdf: the routes that write into STATIC_DIR: form drafts with every  *)
(* intent and form, triage documents, and the master chain with DEMO_MODE  *)
(* set or not, the portals being down                                      *)
(***************************************************************************)
PdfWorlds == {World({}, {}, {"timeout"})}

InitPdf ==
    /\ now = 0
    /\ cache = <<>>
    /\ req = [r \in Requests |-> Idle]
    /\ started = 0
    /\ net \in PdfWorlds
    /\ static = {}
    /\ demo \in BOOLEAN

NextPdf ==
    \/ \E r \in Requests, request \in PdfRequests : GenerateFormPdf(r, request, MaxRequests)
    \/ \E r \in Requests : GeneratePdf(r, MaxRequests)
    \/ \E r \in Requests : ProcessDemo(r, MaxRequests)
    \/ \E r \in Requests : ProcessAnalyze(r, "how do I file an RTI", MaxRequests)
    \/ \E r \in Requests, i \in 1..3 : TaskStart(r, i)
    \/ \E r \in Requests, i \in 1..3, resp \in Responses : GetResolve(r, i, resp)
    \/ \E r \in Requests : AcceptResults(r)
    \/ \E r \in Requests : Return(r)
    \/ \E r \in Requests : ProcessRespond(r)
    \/ \E r \in Requests : PdfDone(r)

SpecPdf == InitPdf /\ [][NextPdf]_vars


(***************************************************************************)
(* Claims about the cache (properties of SpecCache)                       *)
(***************************************************************************)
\* the fetch of source i of request r starts in this step: its task runs
\* its cache check
Begun(r, i) ==
    /\ req[r].phase = "gather"
    /\ i \in DOMAIN req[r].task
    /\ req[r].task[i].pc = "new"
    /\ req'[r].task[i].pc # "new"

\* the GET of task i of request r resolves in this step
Resolved(r, i) ==
    /\ req[r].phase = "gather"
    /\ i \in DOMAIN req[r].task
    /\ req[r].task[i].pc = "get"
    /\ req'[r].task[i].pc = "done"

UrlOf(r, i) == Selected(req[r].topic)[i].url

\* C1: a fetch answered from the cache is answered from an entry whose age,
\* at the moment it is served, is below CACHE_TTL (3600 s): no entry older
\* than the TTL is ever served, whatever the interleaving of requests.
C1_NoStaleServe ==
    [][\A r \in Requests, i \in 1..3 :
         (Begun(r, i) /\ req'[r].task[i].via = "cache") =>
            LET url == Selected(req'[r].topic)[i].url
            IN /\ url \in DOMAIN cache
               /\ now - cache[url].ts < CACHE_TTL
               /\ req'[r].task[i].res.v
                    = Formatted(Selected(req'[r].topic)[i].label, cache[url].text)]_vars

\* C1 witness: a fetch was served from an entry aged 3599 s
C1_Witness ==
    \E r \in Requests : \E i \in DOMAIN req[r].task :
        /\ req[r].task[i].via = "cache"
        /\ UrlOf(r, i) \in DOMAIN cache
        /\ now - cache[UrlOf(r, i)].ts = CACHE_TTL - 1

\* C2: once a fetch of a source has succeeded over the network, every fetch
\* of the same source descriptor that starts later and within the TTL of
\* that success (here: at a time below CACHE_TTL, every success time being
\* at least 0) is served from the cache, without a GET, with the same
\* output as the first fetch.
C2_SameOutputWithinTTL ==
    [][\A r1, r2 \in Requests : \A i \in DOMAIN req[r1].task, j \in 1..3 :
         ( /\ r1 # r2
           /\ req[r1].task[i].via = "net"
           /\ req[r1].task[i].res.t = "str"
           /\ Begun(r2, j)
           /\ Selected(req'[r2].topic)[j] = Selected(req[r1].topic)[i]
           /\ now < CACHE_TTL )
         => /\ req'[r2].task[j].via = "cache"
            /\ req'[r2].task[j].res = req[r1].task[i].res]_vars

\* C3: a GET of a URL never succeeds while the cache holds an unexpired
\* entry of that URL, written by another successful GET of the same TTL
\* window: at most one successful GET per URL and TTL window, also across
\* overlapping requests.
C3_OneGetPerWindow ==
    [][\A r \in Requests, i \in 1..3 :
         (Resolved(r, i) /\ req'[r].task[i].res.t = "str")
            => ~CacheHit(cache, now, UrlOf(r, i))]_vars

(***************************************************************************)
(* Claims about the engine and the policy (properties of Spec)            *)
(***************************************************************************)
\* the sources whose task ended with a text, in configured order
Succeeded(tasks) ==
    SelectSeq(<<1, 2, 3>>, LAMBDA i : i \in DOMAIN tasks /\ tasks[i].res.t = "str")

FirstTwo(s) == SubSeq(s, 1, IF Len(s) < 2 THEN Len(s) ELSE 2)

\* the texts and the labels of the first two successes, in configured order
ExpectedTexts(r) ==
    LET a == FirstTwo(Succeeded(req[r].task))
    IN [k \in 1..Len(a) |-> req[r].task[a[k]].res.v]

ExpectedLabels(r) ==
    LET a == FirstTwo(Succeeded(req[r].task))
    IN [k \in 1..Len(a) |-> Selected(req[r].topic)[a[k]].label]

Ok(r, i) == req[r].task[i].pc = "done" /\ req[r].task[i].res.t = "str"

\* C4: with sources 1 and 2 succeeded and source 3 still pending, the
\* engine's return is not blocked on source 3: it can return at once.
C4_ReturnsAfterTwo ==
    \A r \in Requests :
        ( /\ req[r].phase = "gather"
          /\ Len(req[r].task) = 3
          /\ Ok(r, 1) /\ Ok(r, 2)
          /\ req[r].task[3].pc = "get" )
        => ENABLED AcceptResults(r)

\* C5: whatever the completion order and the pattern of successes and
\* failures, the combined text is the texts of the first two successful
\* sources in configured order, joined by the separator; a failed source is
\* skipped.
C5_ConfiguredOrder ==
    \A r \in Requests :
        req[r].phase = "llm" => req[r].out.web = Join(Separator, ExpectedTexts(r))

\* C5 witness: source 3 completed first and source 1 last, source 2 failed,
\* and the combined text is source 1, separator, source 3
C5_Witness ==
    \E r \in Requests :
        /\ req[r].phase = "llm"
        /\ req[r].order = <<3, 2, 1>>
        /\ Ok(r, 1) /\ ~Ok(r, 2) /\ Ok(r, 3)
        /\ req[r].out.web
             = req[r].task[1].res.v \o Separator \o req[r].task[3].res.v

\* C6: the policy cuts at 300 characters of web context: at 300 or more the
\* fused context is the web context followed by the RAG context (each under
\* its banner line), the tag is "WEB+RAG" and sources_used is what the
\* engine returned; at 299 or less the fused context is the RAG context only
\* (under its banner line), the tag is "RAG" and sources_used is empty.
C6_HardCutoff ==
    \A r \in Requests :
        req[r].phase = "llm" =>
            LET o == req[r].out
                rag == RagContext(req[r].q)
            IN /\ RLen(o.web) >= 300 =>
                    /\ o.fused_context = LiveBanner \o o.web \o AdditionalBanner \o rag
                    /\ o.context_source = "WEB+RAG"
                    /\ o.sources_used = ExpectedLabels(r)
               /\ RLen(o.web) <= 299 =>
                    /\ o.fused_context = KnowledgeBanner \o rag
                    /\ o.context_source = "RAG"
                    /\ o.sources_used = <<>>

\* C6 witness: a web context of exactly 300 characters was fused
C6_Witness ==
    \E r \in Requests :
        /\ req[r].phase = "llm"
        /\ RLen(req[r].out.web) = 300
        /\ req[r].out.context_source = "WEB+RAG"
        /\ req[r].out.sources_used # <<>>

\* C7: a fetch that ends in a non-200 answer, a timeout, a network error or
\* any other error yields None; no task hands an exception to gather and no
\* request ends with an exception out of fetch_government_context.
C7_FailuresAreAbsence ==
    \A r \in Requests :
        /\ req[r].phase # "raised"
        /\ \A i \in DOMAIN req[r].task :
              /\ req[r].task[i].res.t # "exc"
              /\ (req[r].task[i].pc = "done" /\ req[r].task[i].resp \in Failures)
                    => req[r].task[i].res = None

\* C7 witness: the three sources failed in three ways, one of them with an
\* unexpected error, and the call returned
C7_Witness ==
    \E r \in Requests :
        /\ req[r].phase = "llm"
        /\ Len(req[r].task) = 3
        /\ req[r].task[1].resp = "error"
        /\ req[r].task[2].resp = "non200"
        /\ req[r].task[3].resp = "timeout"
        /\ req[r].out.web = <<>>

\* C8: a 200 answer whose extracted text has fewer than 100 characters ends
\* in None and leaves the cache as it was; one with 100 characters or more
\* ends in a text.
C8_ShortIsAbsent ==
    [][\A r \in Requests, i \in 1..3 :
         (Resolved(r, i) /\ req'[r].task[i].resp \in Pages) =>
            LET n == RLen(_extract_text(req'[r].task[i].resp))
            IN /\ n < 100 => (req'[r].task[i].res = None /\ cache' = cache)
               /\ n >= 100 => req'[r].task[i].res.t = "str"]_vars

\* C8 witness: a page of 99 extracted characters was fetched, the fetch ended
\* in None and the URL has no cache entry
C8_Witness ==
    \E r \in Requests : \E i \in DOMAIN req[r].task :
        /\ req[r].task[i].resp = "short"
        /\ RLen(_extract_text("short")) = 99
        /\ req[r].task[i].res = None
        /\ UrlOf(r, i) \notin DOMAIN cache

\* C9: when no dispatched source succeeded (or none is configured), the
\* request goes on: the tag is "RAG", sources_used is empty and the fused
\* context is the knowledge-base banner line followed by exactly the RAG
\* context of the top-3 chunks.
C9_SemanticFallback ==
    \A r \in Requests :
        /\ req[r].phase # "raised"
        /\ ( /\ req[r].phase = "llm"
             /\ \A i \in DOMAIN req[r].task : req[r].task[i].res.t # "str" )
           => /\ req[r].out.context_source = "RAG"
              /\ req[r].out.sources_used = <<>>
              /\ req[r].out.fused_context
                   = KnowledgeBanner \o semantic_retrieve(req[r].q, 3)

\* C9 witness: all three sources were fetched over the network and failed
C9_Witness ==
    \E r \in Requests :
        /\ req[r].phase = "llm"
        /\ Len(req[r].task) = 3
        /\ \A i \in 1..3 : req[r].task[i].via = "net" /\ req[r].task[i].res = None
        /\ req[r].out.context_source = "RAG"

\* C10: the fused context always ends with the non-empty RAG context of the
\* query: web content is never used alone.
C10_AlwaysRag ==
    \A r \in Requests :
        req[r].phase = "llm" =>
            LET f == req[r].out.fused_context
                rag == semantic_retrieve(req[r].q, 3)
            IN /\ rag # <<>>
               /\ Len(f) > Len(rag)
               /\ SubSeq(f, Len(f) - Len(rag) + 1, Len(f)) = rag

\* C10 witness: web content was used, together with the RAG context
C10_Witness ==
    \E r \in Requests :
        /\ req[r].phase = "llm"
        /\ req[r].out.context_source = "WEB+RAG"
        /\ Len(req[r].out.sources_used) = 2

(***************************************************************************)
(* Claims about fetch_government_context called on its own (properties of  *)
(* SpecFetch)                                                              *)
(***************************************************************************)
Configured(intent) == intent \in DOMAIN GOVERNMENT_SOURCES

\* the URLs of the first three sources of some topic
SelectableURLs ==
    UNION {{Selected(t)[i].url : i \in DOMAIN Selected(t)} : t \in DOMAIN GOVERNMENT_SOURCES}

\* the sources that lie beyond the third place of their topic
LaterSources ==
    UNION {{GOVERNMENT_SOURCES[t][k] : k \in 4..Len(GOVERNMENT_SOURCES[t])} :
           t \in DOMAIN GOVERNMENT_SOURCES}

Range(f) == {f[i] : i \in DOMAIN f}

\* C11: a call of fetch_government_context with a topic that has no
\* configured sources returns ("", []) at once: it does not raise, it
\* dispatches no fetch (no GET) and it leaves the cache as it was.
C11_UnconfiguredIsEmpty ==
    [][\A r \in Requests :
         ( /\ req[r].phase = "idle"
           /\ req'[r].phase # "idle"
           /\ ~Configured(req'[r].topic) )
         => /\ req'[r].phase = "fetched"
            /\ req'[r].out.web = <<>>
            /\ req'[r].out.sources_used = <<>>
            /\ req'[r].task = <<>>
            /\ cache' = cache]_vars

\* C11 witness: a call with the unconfigured topic has returned ("", []),
\* while the cache holds entries of an earlier call
C11_Witness ==
    \E r \in Requests :
        /\ req[r].phase = "fetched"
        /\ req[r].topic = "Property Dispute"
        /\ req[r].out = Fetched(<<>>, <<>>)
        /\ cache # <<>>

\* C12: one call dispatches at most three fetches, those of the first three
\* sources of its topic; a source beyond the third place (the fourth RTI
\* source) is never cached and never named in sources_used.
C12_FirstThreeOnly ==
    \A r \in Requests :
        /\ Len(req[r].task) <= 3
        /\ req[r].phase = "gather" =>
              Len(req[r].task) = (IF Len(SourcesFor(req[r].topic)) < 3
                                  THEN Len(SourcesFor(req[r].topic)) ELSE 3)
        /\ \A s \in LaterSources :
              /\ s.url \notin SelectableURLs => s.url \notin DOMAIN cache
              /\ s.label \notin Range(req[r].out.sources_used)

\* C12 witness: a call for RTI, which has four sources, has returned after
\* its first three sources failed over the network
C12_Witness ==
    \E r \in Requests :
        /\ req[r].phase = "fetched"
        /\ req[r].topic = "RTI"
        /\ Len(SourcesFor("RTI")) = 4
        /\ \A i \in 1..3 : req[r].task[i].via = "net" /\ req[r].task[i].res = None
        /\ req[r].out = Fetched(<<>>, <<>>)

\* C13: a call accepts at most two results; when its three sources all
\* succeeded, the combined text is source 1, separator, source 2 and
\* sources_used is the labels of sources 1 and 2.
C13_AtMostTwoAccepted ==
    \A r \in Requests :
        req[r].phase = "fetched" =>
            /\ Len(req[r].out.sources_used) <= 2
            /\ (Len(req[r].task) = 3 /\ \A i \in 1..3 : Ok(r, i)) =>
                  /\ req[r].out.web
                       = req[r].task[1].res.v \o Separator \o req[r].task[2].res.v
                  /\ req[r].out.sources_used
                       = <<Selected(req[r].topic)[1].label, Selected(req[r].topic)[2].label>>

\* C13 witness: the three sources succeeded over the network and the call
\* returned two labels
C13_Witness ==
    \E r \in Requests :
        /\ req[r].phase = "fetched"
        /\ Len(req[r].task) = 3
        /\ \A i \in 1..3 : Ok(r, i) /\ req[r].task[i].via = "net"
        /\ Len(req[r].out.sources_used) = 2

\* C20: the combined text a call returns for a configured topic is empty
\* exactly when none of its dispatched fetches ended with a text: one
\* success among the three is enough for a non-empty text.
C20_EmptyIffAllAbsent ==
    \A r \in Requests :
        (req[r].phase = "fetched" /\ Configured(req[r].topic)) =>
            ( req[r].out.web = <<>>
              <=> \A i \in DOMAIN req[r].task : req[r].task[i].res.t # "str" )

\* C20 witness: the third source alone succeeded, with a page of 100
\* characters, and the combined text is its formatted text
C20_Witness ==
    \E r \in Requests :
        /\ req[r].phase = "fetched"
        /\ Len(req[r].task) = 3
        /\ ~Ok(r, 1) /\ ~Ok(r, 2) /\ Ok(r, 3)
        /\ req[r].task[3].resp = "min"
        /\ req[r].out.web = req[r].task[3].res.v
        /\ req[r].out.web # <<>>

(***************************************************************************)
(* Claims about the fetches of one request and about the tag (properties   *)
(* of Spec)                                                                *)
(***************************************************************************)
\* C14: a dispatched fetch is awaited until its GET has resolved, whatever
\* the other fetches of the request did (the request does not leave gather
\* with a fetch pending), and every fetch that ends with a text, also one
\* that comes third after two successes and is left out of the combined
\* text, writes its (text, time) entry to the cache.
C14_NoCancellation ==
    [][\A r \in Requests :
         /\ \A i \in DOMAIN req'[r].task :
               req'[r].task[i].pc \in {"new", "get"} => req'[r].phase = "gather"
         /\ \A i \in 1..3 :
               (Resolved(r, i) /\ req'[r].task[i].res.t = "str") =>
                  /\ UrlOf(r, i) \in DOMAIN cache'
                  /\ cache'[UrlOf(r, i)]
                       = [text |-> Truncate(_extract_text(req'[r].task[i].resp)),
                          ts |-> now]]_vars

\* C14 witness: sources 1 and 2 succeeded first, source 3 succeeded last and
\* was left out of sources_used, and the cache holds its text
C14_Witness ==
    \E r \in Requests :
        /\ req[r].phase = "llm"
        /\ req[r].order = <<1, 2, 3>>
        /\ \A i \in 1..3 : Ok(r, i) /\ req[r].task[i].via = "net"
        /\ Len(req[r].out.sources_used) = 2
        /\ UrlOf(r, 3) \in DOMAIN cache
        /\ cache[UrlOf(r, 3)].text = Truncate(_extract_text(req[r].task[3].resp))

\* C17: a fetch issues one GET: once its GET has resolved, with a text or
\* with a failure, the fetch is over, and it stays over for the rest of the
\* request.
C17_NoRetry ==
    [][\A r \in Requests : \A i \in DOMAIN req[r].task :
         /\ (req[r].task[i].pc = "get" /\ req'[r].phase = "gather"
                /\ req'[r].task[i] # req[r].task[i])
               => req'[r].task[i].pc = "done"
         /\ (req[r].task[i].pc = "done" /\ req'[r].phase # "idle")
               => req'[r].task[i] = req[r].task[i]]_vars

\* C17 witness: the three GETs of a request failed, each was issued once,
\* and the request returned without a web context
C17_Witness ==
    \E r \in Requests :
        /\ req[r].phase = "llm"
        /\ req[r].order \in {<<1, 2, 3>>, <<3, 1, 2>>}
        /\ \A i \in 1..3 : req[r].task[i].via = "net" /\ req[r].task[i].resp \in Failures
        /\ req[r].out.context_source = "RAG"

\* C18: the tag a request is answered with is "web+semantic" or
\* "semantic-only", and no other value.
C18_SpecTags ==
    \A r \in Requests :
        req[r].phase = "llm" =>
            req[r].out.context_source \in {"web+semantic", "semantic-only"}

(***************************************************************************)
(* Claims about the cache under concurrent requests (properties of         *)
(* SpecCache)                                                              *)
(***************************************************************************)
\* a step in which the fetch i of request r ends with a text for url
Wrote(r, i, url) ==
    /\ Resolved(r, i)
    /\ UrlOf(r, i) = url
    /\ req'[r].task[i].res.t = "str"

\* C15: every change of a cache entry is the write of one successful fetch
\* of that URL, which puts its own text and its own time there together:
\* an entry is at every moment the whole pair of one fetch, and the entry
\* after any sequence of writes is the pair of the last one.
C15_WholeTuple ==
    [][\A url \in DOMAIN cache' :
         \/ url \in DOMAIN cache /\ cache'[url] = cache[url]
         \/ \E r \in Requests, i \in 1..3 :
               /\ Wrote(r, i, url)
               /\ cache'[url] = [text |-> Truncate(_extract_text(req'[r].task[i].resp)),
                                 ts |-> now]]_vars

\* C15 witness: two requests each fetched the same URL over the network and
\* got different pages; the entry is the whole pair of the write at 3599
C15_Witness ==
    \E i, j \in 1..3 :
        /\ i \in DOMAIN req["r1"].task /\ j \in DOMAIN req["r2"].task
        /\ UrlOf("r1", i) = UrlOf("r2", j)
        /\ req["r1"].task[i].via = "net" /\ req["r1"].task[i].resp = "min"
        /\ req["r2"].task[j].via = "net" /\ req["r2"].task[j].resp = "p241"
        /\ cache[UrlOf("r1", i)] = [text |-> Truncate(_extract_text("p241")), ts |-> 3599]

\* C16: a fetch that finds an expired entry of its URL goes to the network
\* and leaves the cache as it was; no step removes a key from the cache;
\* an entry changes only in a step in which a fetch of its URL ends with a
\* text.
C16_ExpiredIsRefetched ==
    [][/\ DOMAIN cache \subseteq DOMAIN cache'
       /\ \A r \in Requests, i \in 1..3 :
             ( /\ Begun(r, i)
               /\ Selected(req'[r].topic)[i].url \in DOMAIN cache
               /\ now - cache[Selected(req'[r].topic)[i].url].ts >= CACHE_TTL )
             => /\ req'[r].task[i].pc = "get"
                /\ cache' = cache
       /\ \A url \in DOMAIN cache :
             cache'[url] # cache[url] => \E r \in Requests, i \in 1..3 : Wrote(r, i, url)]_vars

\* C16 witness: the entry written at time 0 has expired, it is still in the
\* cache, and a fetch of its URL is waiting for its GET
C16_Witness ==
    \E r \in Requests : \E i \in DOMAIN req[r].task :
        /\ req[r].task[i].pc = "get"
        /\ UrlOf(r, i) \in DOMAIN cache
        /\ cache[UrlOf(r, i)].ts = 0
        /\ now = CACHE_TTL
        /\ \A r2 \in Requests \ {r} : req[r2].phase = "idle"

(***************************************************************************)
(* Claims about the waiting and the lengths (properties of Spec)           *)
(***************************************************************************)
\* the length of the text body of a formatted result of source src
BodyLen(src, v) == RLen(v) - (9 + LabelLen(src.label) + 2)

\* C22: while source 1 has not resolved the request cannot return, also
\* when sources 2 and 3 have both succeeded.
C22_WaitsForFirst ==
    \A r \in Requests :
        ( /\ req[r].phase = "gather"
          /\ Len(req[r].task) = 3
          /\ req[r].task[1].pc = "get" )
        => ~ENABLED AcceptResults(r)

\* C22 witness: sources 2 and 3 have succeeded and source 1 is pending
C22_Witness ==
    \E r \in Requests :
        /\ req[r].phase = "gather"
        /\ req[r].order = <<2, 3>>
        /\ Ok(r, 2) /\ Ok(r, 3)
        /\ req[r].task[1].pc = "get"

\* C23: a page whose extracted text has more than 3500 characters is cut to
\* its first 3500 and its fetch ends with a text; every cached text and the
\* body of every text a fetch returns has between 100 and 3500 characters.
C23_LengthBounds ==
    /\ \A url \in DOMAIN cache :
          RLen(cache[url].text) >= 100 /\ RLen(cache[url].text) <= 3500
    /\ \A r \in Requests : \A i \in DOMAIN req[r].task :
          Ok(r, i) =>
             LET src == Selected(req[r].topic)[i]
                 v == req[r].task[i].res.v
             IN /\ BodyLen(src, v) >= 100 /\ BodyLen(src, v) <= 3500
                /\ (req[r].task[i].via = "net"
                      /\ RLen(_extract_text(req[r].task[i].resp)) > 3500)
                     => /\ v = Formatted(src.label,
                                         Take(_extract_text(req[r].task[i].resp), 3500))
                        /\ BodyLen(src, v) = 3500
                        /\ cache[src.url].text
                             = Take(_extract_text(req[r].task[i].resp), 3500)

\* C23 witness: a page of 3601 extracted characters was fetched, its fetch
\* ended with a text and the cached text has 3500 characters
C23_Witness ==
    \E r \in Requests : \E i \in DOMAIN req[r].task :
        /\ Ok(r, i)
        /\ req[r].task[i].resp = "big"
        /\ RLen(_extract_text("big")) = 3601
        /\ RLen(cache[UrlOf(r, i)].text) = 3500

\* C26: the tag and sources_used agree: under the tag of the fused branch
\* ("WEB+RAG") sources_used has one or two labels, under the tag of the
\* fallback branch ("RAG") it is empty, also when sources succeeded and
\* their combined text stayed below 300 characters.
C26_TagMatchesProvenance ==
    \A r \in Requests :
        req[r].phase = "llm" =>
            /\ req[r].out.context_source = "WEB+RAG"
                  => Len(req[r].out.sources_used) \in {1, 2}
            /\ req[r].out.context_source = "RAG"
                  => req[r].out.sources_used = <<>>

\* C26 witness: one source succeeded with 100 characters, the combined text
\* has fewer than 300 characters, the tag is "RAG" and sources_used is empty
C26_Witness ==
    \E r \in Requests :
        /\ req[r].phase = "llm"
        /\ \E i \in DOMAIN req[r].task : Ok(r, i) /\ req[r].task[i].resp = "min"
        /\ RLen(req[r].out.web) > 0
        /\ RLen(req[r].out.web) < 300
        /\ req[r].out.context_source = "RAG"
        /\ req[r].out.sources_used = <<>>

(***************************************************************************)
(* Claim about the labels a call returns (property of SpecFetch)           *)
(***************************************************************************)
\* the label written in the "[Source: ...]" line of a formatted text
LabelOf(v) == v[2].s

\* C25: sources_used has one label per accepted segment, in the order of
\* the segments, the i-th label being the label of the source whose fetch
\* produced the i-th segment (the label in that segment's source line);
\* sources_used is empty exactly when the combined text is empty.
C25_LabelsMatchSegments ==
    \A r \in Requests :
        req[r].phase = "fetched" =>
            /\ req[r].out.web = Join(Separator, ExpectedTexts(r))
            /\ Len(req[r].out.sources_used) = Len(ExpectedTexts(r))
            /\ \A k \in DOMAIN req[r].out.sources_used :
                  /\ req[r].out.sources_used[k] = ExpectedLabels(r)[k]
                  /\ req[r].out.sources_used[k] = LabelOf(ExpectedTexts(r)[k])
            /\ req[r].out.sources_used = <<>> <=> req[r].out.web = <<>>

\* C25 witness: source 1 failed, sources 2 and 3 succeeded, and the call
\* returned the labels of sources 2 and 3 in that order
C25_Witness ==
    \E r \in Requests :
        /\ req[r].phase = "fetched"
        /\ Len(req[r].task) = 3
        /\ ~Ok(r, 1) /\ Ok(r, 2) /\ Ok(r, 3)
        /\ req[r].out.sources_used
             = <<Selected(req[r].topic)[2].label, Selected(req[r].topic)[3].label>>
        /\ req[r].out.web = req[r].task[2].res.v \o Separator \o req[r].task[3].res.v

(***************************************************************************)
(* Claim about failed refetches (property of SpecRefetch)                  *)
(***************************************************************************)
\* the GET answer resp ends the fetch in absence
Absent(resp) == resp \in Failures \/ TooShort(_extract_text(resp))

\* C27: a fetch whose GET ends in a non-200 answer, a timeout, a network
\* error, an unexpected error or a too short text returns None and leaves
\* the whole cache as it was, also when the cache holds an expired entry of
\* its URL: the expired text is not returned and the entry stays.
C27_AbsenceLeavesCache ==
    [][\A r \in Requests, i \in 1..3 :
         (Resolved(r, i) /\ Absent(req'[r].task[i].resp)) =>
            /\ req'[r].task[i].res = None
            /\ cache' = cache]_vars

\* C27 witness: the entry of the URL was written at time 0 and has expired,
\* the refetch ended in a non-200 answer and in None, and the entry is there
C27_Witness ==
    \E r \in Requests : \E i \in DOMAIN req[r].task :
        /\ req[r].task[i].via = "net"
        /\ req[r].task[i].resp = "non200"
        /\ req[r].task[i].res = None
        /\ UrlOf(r, i) \in DOMAIN cache
        /\ cache[UrlOf(r, i)] = [text |-> Truncate(_extract_text("min")), ts |-> 0]
        /\ now = CACHE_TTL

(***************************************************************************)
(* Claim about two requests side by side (property of SpecCache)           *)
(***************************************************************************)
\* the texts a fetch can put in the cache
PlainTexts == {Truncate(_extract_text(p)) : p \in Pages}

\* the text body of a formatted result
BodyOf(v) == SubSeq(v, 4, Len(v))

\* C28: the cache is keyed by URL and holds the text without a label line;
\* a fetch answered from the cache returns a text whose label line names
\* the label of its own source descriptor and whose body is a cached text.
C28_KeyedByUrl ==
    /\ DOMAIN cache \subseteq URLs
    /\ \A url \in DOMAIN cache : cache[url].text \in PlainTexts
    /\ \A r \in Requests : \A i \in DOMAIN req[r].task :
          req[r].task[i].via = "cache" =>
              /\ LabelOf(req[r].task[i].res.v) = Selected(req[r].topic)[i].label
              /\ BodyOf(req[r].task[i].res.v) \in PlainTexts

\* C28 witness: an RTI request fetched https://cic.gov.in/ over the network
\* and a Domestic Violence request was answered from that entry: same body,
\* each under the label of its own topic
C28_Witness ==
    \E r1, r2 \in Requests :
        /\ req[r1].topic = "RTI" /\ req[r2].topic = "Domestic Violence"
        /\ req[r1].task[2].via = "net" /\ Ok(r1, 2)
        /\ req[r2].task[3].via = "cache"
        /\ UrlOf(r1, 2) = UrlOf(r2, 3)
        /\ BodyOf(req[r1].task[2].res.v) = cache["https://cic.gov.in/"].text
        /\ BodyOf(req[r2].task[3].res.v) = cache["https://cic.gov.in/"].text
        /\ LabelOf(req[r1].task[2].res.v)
             = "Central Information Commission (CIC) - Official Portal"
        /\ LabelOf(req[r2].task[3].res.v)
             = "Central Information Commission - Legal Resources"
        /\ DOMAIN cache = {"https://cic.gov.in/"}

C30_UnknownIntentIs400 ==
    \A r \in Requests :
        (req[r].phase = "answered" /\ req[r].topic \notin FormIntents)
            => /\ req[r].out.status = 400
               /\ req[r].out.detail = UnknownIntent(req[r].topic).detail
               /\ req[r].out.pdf_filename = <<>>

====
